---- MODULE Spec2Model ----
(***************************************************************************)
(* tsh - a tiny shell with job control (src/tsh.c).                        *)
(*                                                                         *)
(* The model has the job table and the next-id counter, the main thread    *)
(* (read loop, eval, waitfg), the SIGCHLD handler that may have            *)
(* interrupted it, the pending SIGCHLD, and the operating-system state of  *)
(* every child process.  A stretch of code that runs with all signals      *)
(* blocked is one action; everywhere else a handler may run between two    *)
(* actions.                                                                *)
(***************************************************************************)
EXTENDS Integers, Sequences, FiniteSets, TLC

(* ---- bounds of the model ---- *)
MAXJOBS == 4      \* table capacity (16 in the source, line 19)
MaxPid == 5       \* process ids are 1..MaxPid
MaxLive == 2      \* Spec forks only while fewer children than this exist
MaxJid == 2       \* Spec runs no new program once nextjid exceeds this

(* ---- job states, src/tsh.c:23-26 ---- *)
UNDEF == 0
FG == 1
BG == 2
ST == 3

Slots == 1..MAXJOBS
Pids == 1..MaxPid
Sigs == {"SIGCHLD", "SIGINT", "SIGTSTP"}

\* the two command lines a spawned program can have: with and without "&"
FgLine == "prog\n"
BgLine == "prog &\n"

Min(S) == CHOOSE x \in S : \A y \in S : x <= y

(***************************************************************************)
(* Job-table helper routines, src/tsh.c:411-529.  Each takes the table     *)
(* (and the counter where the code reads or writes nextjid) and returns    *)
(* what the code leaves behind.                                            *)
(***************************************************************************)
clearjob == [pid |-> 0, jid |-> 0, state |-> UNDEF, cmdline |-> ""]

initjobs == [i \in Slots |-> clearjob]

maxjid(J) == CHOOSE m \in {0} \cup {J[i].jid : i \in Slots} :
                 \A i \in Slots : J[i].jid <= m

\* next value of the counter after an allocation (lines 450-452)
bumpjid(n) == IF n + 1 > MAXJOBS THEN 1 ELSE n + 1

\* addfull with the counter advanced although no job was added
addfull_bump(J, n) ==
    [jobs |-> J, nextjid |-> bumpjid(n), ret |-> 0,
     msg |-> <<[kind |-> "toomany", jid |-> 0, pid |-> 0]>>]

\* what addjob leaves when no slot is free (lines 460-461)
addfull(J, n) ==
    [jobs |-> J, nextjid |-> n, ret |-> 0,
     msg |-> <<[kind |-> "toomany", jid |-> 0, pid |-> 0]>>]

addjob(J, n, pid, state, cmdline) ==
    IF pid < 1
    THEN [jobs |-> J, nextjid |-> n, ret |-> 0, msg |-> <<>>]
    ELSE LET free == {i \in Slots : J[i].pid = 0} IN
         IF free = {}
         THEN addfull(J, n)
         ELSE [jobs |-> [J EXCEPT ![Min(free)] =
                           [pid |-> pid, jid |-> n, state |-> state,
                            cmdline |-> cmdline]],
               nextjid |-> bumpjid(n), ret |-> 1, msg |-> <<>>]

\* resetjid counting the jobs left instead of taking the largest job id
resetjid_count(J) == Cardinality({i \in Slots : J[i].pid # 0}) + 1

\* the counter after a deletion (line 475)
resetjid(J) == maxjid(J) + 1

deletejob(J, n, pid) ==
    IF pid < 1
    THEN [jobs |-> J, nextjid |-> n, ret |-> 0]
    ELSE LET hit == {i \in Slots : J[i].pid = pid} IN
         IF hit = {}
         THEN [jobs |-> J, nextjid |-> n, ret |-> 0]
         ELSE LET J2 == [J EXCEPT ![Min(hit)] = clearjob] IN
              [jobs |-> J2, nextjid |-> resetjid(J2), ret |-> 1]

fgpid(J) ==
    LET fgs == {i \in Slots : J[i].state = FG} IN
    IF fgs = {} THEN 0 ELSE J[Min(fgs)].pid

\* slot of the job, 0 for the NULL pointer
getjobpid(J, pid) ==
    IF pid < 1 THEN 0
    ELSE LET hit == {i \in Slots : J[i].pid = pid} IN
         IF hit = {} THEN 0 ELSE Min(hit)

getjobjid(J, jid) ==
    IF jid < 1 THEN 0
    ELSE LET hit == {i \in Slots : J[i].jid = jid} IN
         IF hit = {} THEN 0 ELSE Min(hit)

\* pid2jid without the comparison of pids: the job id of the first in-use slot
pid2jid_first(J, pid) ==
    IF pid < 1 THEN 0
    ELSE LET hit == {i \in Slots : J[i].pid # 0} IN
         IF hit = {} THEN 0 ELSE J[Min(hit)].jid

pid2jid(J, pid) ==
    IF pid < 1 THEN 0
    ELSE LET hit == {i \in Slots : J[i].pid = pid} IN
         IF hit = {} THEN 0 ELSE J[Min(hit)].jid

(***************************************************************************)
(* State.                                                                  *)
(***************************************************************************)
VARIABLES
    jobs,      \* struct job_t jobs[MAXJOBS]
    nextjid,   \* int nextjid
    pc,        \* where the main thread is
    epid,      \* eval's local pid
    bg_flag,   \* eval's local bg_flag
    cmd,       \* eval's argv[0]: "prog", "jobs", "fg" or "bg"; "" outside eval
    mask,      \* signals blocked by the main thread
    hpc,       \* where sigchld_handler is, "none" when it is not running
    hpid,      \* sigchld_handler's local pid
    pending,   \* signals generated for the shell and not yet delivered
    proc,      \* operating-system state of each process id
    out        \* lines written to stdout by the latest step

vars == <<jobs, nextjid, pc, epid, bg_flag, cmd, mask, hpc, hpid, pending, proc, out>>

(***************************************************************************)
(* Process states, as the operating system sees them:                      *)
(*   none      no such process (never forked, or reaped by waitpid)        *)
(*   forked    the child returned from fork, line 184, and has not yet     *)
(*             run setpgid: its process group is still the shell's         *)
(*   running   execve succeeded, the program runs in its own group         *)
(*   stopped_u stopped by a signal, not yet reported by waitpid            *)
(*   stopped   stopped by a signal, already reported                       *)
(*   zombie_exit / zombie_sig  terminated (exit / uncaught signal)         *)
(*   c_read    execve returned -1 and the child went on through lines      *)
(*             191-200 of eval into main's read loop                       *)
(***************************************************************************)
ProcStates == {"none", "forked", "running", "stopped_u", "stopped",
               "zombie_exit", "zombie_sig", "c_read"}

\* kill(-pid, sig) finds a process group only once the child ran setpgid
\* and until the child is reaped; kill(pid, sig) finds any process not reaped
HasGroup(P, p) == p \in Pids /\ P[p] \notin {"none", "forked"}
HasProc(P, p) == p \in Pids /\ P[p] # "none"

Alive == pc \notin {"exited", "fatal", "crashed"}

\* the main thread runs while no handler has interrupted it
InMain == Alive /\ hpc = "none"

\* positions of a handler at which it has blocked every signal: inside
\* sigchld_handler after line 351 and before line 353 ("delb", "deld"), and
\* inside sigtstp_handler after line 391 ("tstp_main", "tstp_wait",
\* "tstp_del": the handler interrupted the main thread, or sigchld_handler
\* at "wait" or "del")
AllBlockedAt == {"delb", "deld", "tstp_main", "tstp_wait", "tstp_del"}

\* signals the running context has blocked: the main thread's mask and,
\* inside sigchld_handler, SIGCHLD itself (Signal, lines 603-605: sa_mask is
\* empty, so only the signal being handled is added), or every signal
Blocked ==
    mask \cup (IF hpc = "none" THEN {}
               ELSE IF hpc \in AllBlockedAt THEN Sigs ELSE {"SIGCHLD"})

NoLine == <<>>
Line(k, j, p) == <<[kind |-> k, jid |-> j, pid |-> p]>>

\* The shell process ends: exit(0) at lines 149 and 267 ("exited"),
\* unix_error's exit(1) at lines 581-585 ("fatal"), or a fault ("crashed").
\* Nothing of the process is left, and its children are no longer followed.
End(how, lines) ==
    /\ pc' = how
    /\ out' = lines
    /\ jobs' = initjobs
    /\ nextjid' = 1
    /\ epid' = 0
    /\ bg_flag' = 0
    /\ cmd' = ""
    /\ mask' = {}
    /\ hpc' = "none"
    /\ hpid' = 0
    /\ pending' = {}
    /\ proc' = [p \in Pids |-> "none"]

\* sigsuspend, line 312, returns once a handler has been run
Woken(at) == IF at = "suspended" THEN "waitfg" ELSE at

Init ==
    /\ jobs = initjobs
    /\ nextjid = 1
    /\ pc = "read"
    /\ epid = 0
    /\ bg_flag = 0
    /\ cmd = ""
    /\ mask = {}
    /\ hpc = "none"
    /\ hpid = 0
    /\ pending = {}
    /\ proc = [p \in Pids |-> "none"]
    /\ out = NoLine

(***************************************************************************)
(* The effect of a signal the shell sends to a child.                      *)
(***************************************************************************)
\* SIGINT: a running program dies of it; a stopped one keeps it pending; the
\* child that failed execve still has the shell's handler installed, whose
\* copy of the table has no foreground job.
AfterSigint(st) == IF st = "running" THEN "zombie_sig" ELSE st
AfterSigtstp(st) == IF st = "running" THEN "stopped_u" ELSE st
AfterSigcont(st) == IF st \in {"stopped_u", "stopped"} THEN "running" ELSE st

\* a child whose state changed raises SIGCHLD for the shell
Notify(old, new) == IF old # new THEN {"SIGCHLD"} ELSE {}

(***************************************************************************)
(* The main thread: main's read loop, eval, builtin_cmd, do_bgfg, waitfg.  *)
(***************************************************************************)

\* blockchld with the signal left unblocked
blockchld_none(m) == m

\* line 183: Sigprocmask(SIG_BLOCK, &mask_sigchld, &prev_mask)
blockchld(m) == m \cup {"SIGCHLD"}

\* lines 181-184, parent side: a command that is not a builtin; SIGCHLD is
\* blocked, then the child is forked.  The child gets the lowest free pid.
EvalFork(bg) ==
    /\ InMain /\ pc = "read"
    /\ \E p \in Pids :
         /\ proc[p] = "none"
         /\ \A q \in Pids : proc[q] = "none" => p <= q
         /\ proc' = [proc EXCEPT ![p] = "forked"]
         /\ epid' = p
    /\ bg_flag' = bg
    /\ cmd' = "prog"
    /\ mask' = blockchld(mask)
    /\ pc' = "forked"
    /\ out' = NoLine
    /\ UNCHANGED <<jobs, nextjid, hpc, hpid, pending>>

\* line 184 with Fork, lines 626-632: fork fails, unix_error ends the shell
EvalForkFail ==
    /\ InMain /\ pc = "read"
    /\ End("fatal", Line("fork error", 0, 0))

\* lines 191-198, parent side: with all signals blocked, addjob and, for a
\* background job, the announcement; then the mask saved at line 183 (the
\* main thread's empty mask) is restored.  bg_flag is not read again.
EvalAddjob ==
    /\ InMain /\ pc = "forked"
    /\ LET r == addjob(jobs, nextjid, epid,
                       IF bg_flag = 1 THEN BG ELSE FG,
                       IF bg_flag = 1 THEN BgLine ELSE FgLine)
       IN /\ jobs' = r.jobs
          /\ nextjid' = r.nextjid
          /\ out' = r.msg \o (IF bg_flag = 1
                              THEN Line("announce", pid2jid(r.jobs, epid), epid)
                              ELSE NoLine)
    /\ mask' = {}
    /\ pc' = "waitfg"
    /\ bg_flag' = 0
    /\ UNCHANGED <<epid, cmd, hpc, hpid, pending, proc>>

\* builtin_cmd, lines 268-270, then line 200: "jobs" lists the table and
\* leaves eval's pid as it was declared at line 176, without a value: any
\* value.  waitfg only looks the value up in the table, so 0 stands for
\* every value that is no pid of the table.
BuiltinJobs ==
    /\ InMain /\ pc = "read"
    /\ \E v \in 0..MaxPid :
         /\ v = 0 \/ getjobpid(jobs, v) # 0
         /\ epid' = v
    /\ bg_flag' = 0
    /\ cmd' = "jobs"
    /\ out' = Line("jobs", 0, 0)
    /\ pc' = "waitfg"
    /\ UNCHANGED <<jobs, nextjid, mask, hpc, hpid, pending, proc>>

\* builtin_cmd, lines 266-267
BuiltinQuit ==
    /\ InMain /\ pc = "read"
    /\ End("exited", NoLine)

\* main, lines 147-150: end of file on stdin
ReadEOF ==
    /\ InMain /\ pc = "read"
    /\ End("exited", NoLine)

\* bgfgstate with "bg" putting the job in the foreground as "fg" does
bgfgstate_fg(isfg) == FG

\* do_bgfg, lines 294-300: the state "bg" and "fg" give the job
bgfgstate(isfg) == IF isfg THEN FG ELSE BG

\* do_bgfg, lines 281-302, for "fg %j" (isfg) or "bg %j", all signals
\* blocked throughout.  getjobjid's NULL is dereferenced at line 290.
do_bgfg(isfg, j) ==
    LET slot == getjobjid(jobs, j) IN
    IF slot = 0
    THEN End("crashed", NoLine)
    ELSE LET pid == jobs[slot].pid IN
         IF ~HasProc(proc, pid)
         THEN End("fatal", Line("continue error", 0, 0))
         ELSE /\ proc' = [proc EXCEPT ![pid] = AfterSigcont(proc[pid])]
              /\ pending' = pending \cup Notify(proc[pid], AfterSigcont(proc[pid]))
              /\ jobs' = [jobs EXCEPT ![slot].state = bgfgstate(isfg)]
              /\ out' = IF isfg THEN NoLine ELSE Line("announce", j, pid)
              /\ epid' = pid
              /\ cmd' = IF isfg THEN "fg" ELSE "bg"
              /\ pc' = "waitfg"
              /\ UNCHANGED <<nextjid, bg_flag, mask, hpc, hpid>>

BuiltinBgFg(isfg, j) ==
    /\ InMain /\ pc = "read"
    /\ do_bgfg(isfg, j)

\* WaitCond with the comparison inverted: wait while pid is not the
\* foreground job
WaitCond_inverted(J, pid) == pid2jid(J, pid) # 0 /\ pid # fgpid(J)

\* WaitCond with the first test negated: wait only for a pid that is not
\* in the table
WaitCond_nojob(J, pid) == pid2jid(J, pid) = 0 /\ pid = fgpid(J)

\* waitfg, line 311: the loop condition
WaitCond(J, pid) == pid2jid(J, pid) # 0 /\ pid = fgpid(J)

\* waitfg, line 311; when the loop ends eval returns and its locals are gone
WaitfgCheck ==
    /\ InMain /\ pc = "waitfg"
    /\ IF WaitCond(jobs, epid)
       THEN pc' = "suspend" /\ UNCHANGED <<epid, bg_flag, cmd>>
       ELSE pc' = "read" /\ epid' = 0 /\ bg_flag' = 0 /\ cmd' = ""
    /\ out' = NoLine
    /\ UNCHANGED <<jobs, nextjid, mask, hpc, hpid, pending, proc>>

\* waitfg, line 312: sigsuspend installs the empty mask and sleeps until a
\* handler has run and returned
Sigsuspend ==
    /\ InMain /\ pc = "suspend"
    /\ pc' = "suspended"
    /\ out' = NoLine
    /\ UNCHANGED <<jobs, nextjid, epid, bg_flag, cmd, mask, hpc, hpid, pending, proc>>

(***************************************************************************)
(* The three handlers.  sigint_handler and sigtstp_handler block every     *)
(* signal before they read the table and until they are done, so each is   *)
(* one action, taken at any point where SIGINT/SIGTSTP is not blocked:     *)
(* between two steps of the main thread or of sigchld_handler.             *)
(***************************************************************************)

\* SIGCHLD is delivered: sigchld_handler starts, line 326
ChldDeliver ==
    /\ Alive
    /\ "SIGCHLD" \in pending /\ "SIGCHLD" \notin Blocked
    /\ pending' = pending \ {"SIGCHLD"}
    /\ hpc' = "wait"
    /\ pc' = Woken(pc)
    /\ out' = NoLine
    /\ UNCHANGED <<jobs, nextjid, epid, bg_flag, cmd, mask, hpid, proc>>

\* sigchld_handler, lines 335-347: one call of waitpid(-1, WNOHANG|WUNTRACED)
\* and the notice; a terminated child is reaped by the call; the handler
\* returns when no child has a status to report
ChldWaitpid ==
    /\ Alive /\ hpc = "wait"
    /\ LET avail == {p \in Pids : proc[p] \in {"zombie_exit", "zombie_sig", "stopped_u"}} IN
       IF avail = {}
       THEN /\ hpc' = "none"
            /\ out' = NoLine
            /\ UNCHANGED <<proc, hpid>>
       ELSE \E p \in avail :
              IF proc[p] = "stopped_u"
              THEN /\ proc' = [proc EXCEPT ![p] = "stopped"]
                   /\ out' = Line("stopped", pid2jid(jobs, p), p)
                   /\ UNCHANGED <<hpc, hpid>>
              ELSE /\ proc' = [proc EXCEPT ![p] = "none"]
                   /\ out' = IF proc[p] = "zombie_sig"
                             THEN Line("terminated", pid2jid(jobs, p), p)
                             ELSE NoLine
                   /\ hpc' = "del"
                   /\ hpid' = p
    /\ UNCHANGED <<jobs, nextjid, pc, epid, bg_flag, cmd, mask, pending>>

\* nextwait with the handler returning after one child
nextwait_once == "none"

\* sigchld_handler, line 335: after a deletion the while loop calls waitpid
\* again
nextwait == "wait"

\* sigchld_handler, lines 351-353: deletejob with all signals blocked
ChldDelete ==
    /\ Alive /\ hpc = "del"
    /\ LET r == deletejob(jobs, nextjid, hpid) IN
         /\ jobs' = r.jobs
         /\ nextjid' = r.nextjid
    /\ hpc' = nextwait
    /\ hpid' = 0
    /\ out' = NoLine
    /\ UNCHANGED <<pc, epid, bg_flag, cmd, mask, pending, proc>>

\* sigint_handler, lines 364-378, run on ctrl-c
SigintHandler ==
    /\ Alive /\ "SIGINT" \notin Blocked
    /\ LET pid == fgpid(jobs) IN
       IF pid # 0 /\ ~HasGroup(proc, pid)
       THEN End("fatal", Line("interrupt error", 0, 0))
       ELSE /\ pc' = Woken(pc)
            /\ out' = NoLine
            /\ IF pid # 0
               THEN /\ proc' = [proc EXCEPT ![pid] = AfterSigint(proc[pid])]
                    /\ pending' = pending \cup Notify(proc[pid], AfterSigint(proc[pid]))
               ELSE UNCHANGED <<pending, proc>>
            /\ UNCHANGED <<jobs, nextjid, epid, bg_flag, cmd, mask, hpc, hpid>>

\* stopjob marking every job of the table, not only the one of pid
stopjob_all(J, pid) ==
    [i \in Slots |-> IF J[i].pid # 0 THEN [J[i] EXCEPT !.state = ST] ELSE J[i]]

\* sigtstp_handler, lines 396-397: the job is marked stopped
stopjob(J, pid) == [J EXCEPT ![getjobpid(J, pid)].state = ST]

\* sigtstp_handler, lines 385-401, run on ctrl-z
SigtstpHandler ==
    /\ Alive /\ "SIGTSTP" \notin Blocked
    /\ LET pid == fgpid(jobs) IN
       IF pid # 0 /\ ~HasGroup(proc, pid)
       THEN End("fatal", Line("stop error", 0, 0))
       ELSE /\ pc' = Woken(pc)
            /\ out' = NoLine
            /\ IF pid # 0
               THEN /\ proc' = [proc EXCEPT ![pid] = AfterSigtstp(proc[pid])]
                    /\ pending' = pending \cup Notify(proc[pid], AfterSigtstp(proc[pid]))
                    /\ jobs' = stopjob(jobs, pid)
               ELSE UNCHANGED <<jobs, pending, proc>>
            /\ UNCHANGED <<nextjid, epid, bg_flag, cmd, mask, hpc, hpid>>

(***************************************************************************)
(* The children.                                                           *)
(***************************************************************************)
ChildTo(p, from, to, sigs) ==
    /\ Alive
    /\ proc[p] \in from
    /\ proc' = [proc EXCEPT ![p] = to]
    /\ pending' = pending \cup sigs
    /\ out' = NoLine
    /\ UNCHANGED <<jobs, nextjid, pc, epid, bg_flag, cmd, mask, hpc, hpid>>

\* lines 187-189, child side: setpgid, the mask restored, execve succeeds
ChildExec(p) == ChildTo(p, {"forked"}, "running", {})

\* lines 187-200, child side: setpgid, execve returns -1 and nothing ends
\* the child; fork returned 0 to it, so addjob(jobs, 0, ...) and waitfg(0)
\* return at once and eval returns to main's read loop
ChildExecFail(p) == ChildTo(p, {"forked"}, "c_read", {})

\* the child shell ends (end of file, quit)
ChildShellExit(p) == ChildTo(p, {"c_read"}, "zombie_exit", {"SIGCHLD"})

\* the program ends by itself
ChildExit(p) == ChildTo(p, {"running"}, "zombie_exit", {"SIGCHLD"})

\* the program is killed by a signal from outside the shell
ChildKilled(p) == ChildTo(p, {"running", "stopped_u", "stopped"}, "zombie_sig", {"SIGCHLD"})

\* the program is stopped by a signal from outside the shell
ChildStopped(p) == ChildTo(p, {"running"}, "stopped_u", {"SIGCHLD"})

\* the number of child processes that exist
Live == Cardinality({p \in Pids : proc[p] # "none"})

MainStep ==
    \/ \E bg \in {0, 1} : Live < MaxLive /\ nextjid <= MaxJid /\ EvalFork(bg)
    \/ EvalForkFail
    \/ EvalAddjob
    \/ BuiltinJobs
    \/ BuiltinQuit
    \/ ReadEOF
    \/ \E isfg \in BOOLEAN, j \in 1..MaxJid : BuiltinBgFg(isfg, j)
    \/ WaitfgCheck
    \/ Sigsuspend

HandlerStep ==
    \/ ChldDeliver
    \/ ChldWaitpid
    \/ ChldDelete
    \/ SigintHandler
    \/ SigtstpHandler

ChildStep ==
    \E p \in Pids :
       \/ ChildExec(p)
       \/ ChildExecFail(p)
       \/ ChildShellExit(p)
       \/ ChildExit(p)
       \/ ChildKilled(p)
       \/ ChildStopped(p)

Next ==
    \/ MainStep
    \/ HandlerStep
    \/ ChildStep

Spec == Init /\ [][Next]_vars

\* The shell with nothing typed on the keyboard.  The main thread goes on
\* whenever it can (reading a command needs a command, so it is not forced)
\* and so does the SIGCHLD handler; a pending signal that is not blocked is
\* delivered.
QuietNext ==
    \/ MainStep
    \/ ChldDeliver
    \/ ChldWaitpid
    \/ ChldDelete
    \/ ChildStep

FairSpec ==
    /\ Init /\ [][QuietNext]_vars
    /\ WF_vars(EvalAddjob \/ WaitfgCheck \/ Sigsuspend)
    /\ WF_vars(ChldDeliver \/ ChldWaitpid \/ ChldDelete)

TypeOK ==
    /\ nextjid \in 1..(MAXJOBS + 2)
    /\ pc \in {"read", "forked", "waitfg", "suspend", "suspended",
              "blocked", "added", "bgfg", "bgfg_done",
              "exited", "fatal", "crashed"}
    /\ epid \in 0..MaxPid
    /\ cmd \in {"", "prog", "jobs", "fg", "bg"}
    /\ mask \subseteq Sigs
    /\ pending \subseteq Sigs
    /\ hpc \in {"none", "wait", "del"} \cup AllBlockedAt
    /\ \A p \in Pids : proc[p] \in ProcStates

(***************************************************************************)
(* The shell running programs only: every command line names a program,    *)
(* run with "&" or, once the table is full, also in the foreground; every  *)
(* program is loaded and nothing is typed on the keyboard.  A program ends *)
(* by itself while it has no slot (before eval has added it, or when the   *)
(* table had no room for it); a program that got a slot runs on.  One      *)
(* child more than the table has slots may exist, so the table fills up.   *)
(***************************************************************************)
SpawnNext ==
    \/ \E bg \in {0, 1} :
          /\ Live <= MAXJOBS /\ nextjid <= MAXJOBS
          /\ bg = 1 \/ \A i \in Slots : jobs[i].pid # 0
          /\ EvalFork(bg)
    \/ EvalAddjob
    \/ WaitfgCheck
    \/ ChldDeliver
    \/ ChldWaitpid
    \/ ChldDelete
    \/ \E p \in Pids : ChildExec(p)
    \/ \E p \in Pids : getjobpid(jobs, p) = 0 /\ ChildExit(p)

SpecSpawn == Init /\ [][SpawnNext]_vars

(***************************************************************************)
(* The shell statement by statement: every Sigprocmask call is a step of   *)
(* its own, so that the mask under which the table is written is a state   *)
(* of the model.  The main thread has the positions "blocked" (after line  *)
(* 191), "added" (after lines 192-197), "bgfg" (after line 288) and        *)
(* "bgfg_done" (after line 300); the handlers have those of AllBlockedAt.  *)
(***************************************************************************)

\* blockall with only SIGCHLD added to the mask
blockall_chld(m) == m \cup {"SIGCHLD"}

\* Sigprocmask(SIG_BLOCK, &mask_all, ...), lines 191, 288, 351, 370, 391
blockall(m) == Sigs

\* eval, line 191
StepBlockAll ==
    /\ InMain /\ pc = "forked"
    /\ mask' = blockall(mask)
    /\ pc' = "blocked"
    /\ out' = NoLine
    /\ UNCHANGED <<jobs, nextjid, epid, bg_flag, cmd, hpc, hpid, pending, proc>>

\* eval, lines 192-197: addjob and the announcement
StepAddjob ==
    /\ InMain /\ pc = "blocked"
    /\ LET r == addjob(jobs, nextjid, epid,
                       IF bg_flag = 1 THEN BG ELSE FG,
                       IF bg_flag = 1 THEN BgLine ELSE FgLine)
       IN /\ jobs' = r.jobs
          /\ nextjid' = r.nextjid
          /\ out' = r.msg \o (IF bg_flag = 1
                              THEN Line("announce", pid2jid(r.jobs, epid), epid)
                              ELSE NoLine)
    /\ pc' = "added"
    /\ bg_flag' = 0
    /\ UNCHANGED <<epid, cmd, mask, hpc, hpid, pending, proc>>

\* eval, line 198, and do_bgfg, line 301: the saved mask, which is the main
\* thread's empty mask, is restored; then line 200
StepRestore ==
    /\ InMain /\ pc \in {"added", "bgfg_done"}
    /\ mask' = {}
    /\ pc' = "waitfg"
    /\ out' = NoLine
    /\ UNCHANGED <<jobs, nextjid, epid, bg_flag, cmd, hpc, hpid, pending, proc>>

\* builtin_cmd, lines 271-272, and do_bgfg, lines 286-288
StepBgfgBlock(isfg) ==
    /\ InMain /\ pc = "read"
    /\ cmd' = IF isfg THEN "fg" ELSE "bg"
    /\ mask' = blockall(mask)
    /\ pc' = "bgfg"
    /\ out' = NoLine
    /\ UNCHANGED <<jobs, nextjid, epid, bg_flag, hpc, hpid, pending, proc>>

\* do_bgfg, lines 289-300, for the job id j that line 286 parsed
StepBgfgWrite(j) ==
    /\ InMain /\ pc = "bgfg"
    /\ LET slot == getjobjid(jobs, j) IN
       IF slot = 0
       THEN End("crashed", NoLine)
       ELSE LET pid == jobs[slot].pid IN
            IF ~HasProc(proc, pid)
            THEN End("fatal", Line("continue error", 0, 0))
            ELSE /\ proc' = [proc EXCEPT ![pid] = AfterSigcont(proc[pid])]
                 /\ pending' = pending \cup Notify(proc[pid], AfterSigcont(proc[pid]))
                 /\ jobs' = [jobs EXCEPT ![slot].state = bgfgstate(cmd = "fg")]
                 /\ out' = IF cmd = "fg" THEN NoLine ELSE Line("announce", j, pid)
                 /\ epid' = pid
                 /\ pc' = "bgfg_done"
                 /\ UNCHANGED <<nextjid, bg_flag, cmd, mask, hpc, hpid>>

\* sigchld_handler, line 351
StepChldBlock ==
    /\ Alive /\ hpc = "del"
    /\ hpc' = "delb"
    /\ out' = NoLine
    /\ UNCHANGED <<jobs, nextjid, pc, epid, bg_flag, cmd, mask, hpid, pending, proc>>

\* sigchld_handler, line 352
StepChldDelete ==
    /\ Alive /\ hpc = "delb"
    /\ LET r == deletejob(jobs, nextjid, hpid) IN
         /\ jobs' = r.jobs
         /\ nextjid' = r.nextjid
    /\ hpc' = "deld"
    /\ hpid' = 0
    /\ out' = NoLine
    /\ UNCHANGED <<pc, epid, bg_flag, cmd, mask, pending, proc>>

\* sigchld_handler, line 353, and back to line 335
StepChldRestore ==
    /\ Alive /\ hpc = "deld"
    /\ hpc' = nextwait
    /\ out' = NoLine
    /\ UNCHANGED <<jobs, nextjid, pc, epid, bg_flag, cmd, mask, hpid, pending, proc>>

\* the position of sigtstp_handler once it has interrupted position h, and
\* the position it returns to
TstpAt(h) ==
    CASE h = "none" -> "tstp_main" [] h = "wait" -> "tstp_wait" [] h = "del" -> "tstp_del"
TstpBack(h) ==
    CASE h = "tstp_main" -> "none" [] h = "tstp_wait" -> "wait" [] h = "tstp_del" -> "del"

\* sigtstp_handler, lines 385-391: delivery of SIGTSTP and the block
StepTstpEnter ==
    /\ Alive /\ "SIGTSTP" \notin Blocked
    /\ hpc \in {"none", "wait", "del"}
    /\ hpc' = TstpAt(hpc)
    /\ pc' = Woken(pc)
    /\ out' = NoLine
    /\ UNCHANGED <<jobs, nextjid, epid, bg_flag, cmd, mask, hpid, pending, proc>>

\* sigtstp_handler, lines 392-400: kill, the job marked stopped, the mask
\* restored and the return
StepTstpWrite ==
    /\ Alive /\ hpc \in {"tstp_main", "tstp_wait", "tstp_del"}
    /\ LET pid == fgpid(jobs) IN
       IF pid # 0 /\ ~HasGroup(proc, pid)
       THEN End("fatal", Line("stop error", 0, 0))
       ELSE /\ hpc' = TstpBack(hpc)
            /\ out' = NoLine
            /\ IF pid # 0
               THEN /\ proc' = [proc EXCEPT ![pid] = AfterSigtstp(proc[pid])]
                    /\ pending' = pending \cup Notify(proc[pid], AfterSigtstp(proc[pid]))
                    /\ jobs' = stopjob(jobs, pid)
               ELSE UNCHANGED <<jobs, pending, proc>>
            /\ UNCHANGED <<nextjid, pc, epid, bg_flag, cmd, mask, hpid>>

StepNext ==
    \/ \E bg \in {0, 1} : Live < MaxLive /\ nextjid <= MaxJid /\ EvalFork(bg)
    \/ StepBlockAll
    \/ StepAddjob
    \/ StepRestore
    \/ \E isfg \in BOOLEAN : StepBgfgBlock(isfg)
    \/ \E j \in 1..MaxJid : StepBgfgWrite(j)
    \/ WaitfgCheck
    \/ Sigsuspend
    \/ ChldDeliver
    \/ ChldWaitpid
    \/ StepChldBlock
    \/ StepChldDelete
    \/ StepChldRestore
    \/ StepTstpEnter
    \/ StepTstpWrite
    \/ SigintHandler
    \/ \E p \in Pids : ChildExec(p)
    \/ \E p \in Pids : ChildExit(p)

SpecStep == Init /\ [][StepNext]_vars

(***************************************************************************)
(* The job table on its own: any sequence of addjob and deletejob calls    *)
(* from the initialised table.  addjob is called as eval calls it: with a  *)
(* pid that no job of the table has (the lowest one, as EvalFork hands     *)
(* pids out, or 0), and with FG only when no job is in the foreground.     *)
(***************************************************************************)
TableAdd(pid, state) ==
    /\ nextjid <= MAXJOBS + 1
    /\ getjobpid(jobs, pid) = 0
    /\ \A q \in 1..(pid - 1) : getjobpid(jobs, q) # 0
    /\ state = FG => fgpid(jobs) = 0
    /\ LET r == addjob(jobs, nextjid, pid, state,
                       IF state = BG THEN BgLine ELSE FgLine)
       IN /\ jobs' = r.jobs
          /\ nextjid' = r.nextjid
          /\ out' = r.msg
    /\ UNCHANGED <<pc, epid, bg_flag, cmd, mask, hpc, hpid, pending, proc>>

TableDelete(pid) ==
    /\ LET r == deletejob(jobs, nextjid, pid) IN
          /\ jobs' = r.jobs
          /\ nextjid' = r.nextjid
    /\ out' = NoLine
    /\ UNCHANGED <<pc, epid, bg_flag, cmd, mask, hpc, hpid, pending, proc>>

TableNext ==
    \/ \E pid \in 0..MaxPid, state \in {FG, BG} : TableAdd(pid, state)
    \/ \E pid \in 0..MaxPid : TableDelete(pid)

SpecTable == Init /\ [][TableNext]_vars

InUse == {i \in Slots : jobs[i].pid # 0}

\* C1: no two in-use slots hold the same job id, and no in-use slot holds
\* job id 0.
C1_DistinctJids ==
    /\ \A i, k \in InUse : i # k => jobs[i].jid # jobs[k].jid
    /\ \A i \in InUse : jobs[i].jid # 0

\* C2: the next-id counter is strictly greater than the job id of every
\* in-use slot.
C2_NextjidAboveInUse ==
    \A i \in InUse : nextjid > jobs[i].jid


(***************************************************************************)
(* Properties of the shell.                                                *)
(***************************************************************************)
FgSlots == {i \in Slots : jobs[i].state = FG}

\* C3: at most one job-table slot has state Foreground.
C3_AtMostOneFg == Cardinality(FgSlots) <= 1

\* a background job was brought forward with fg while another job is in the
\* table
C3_Witness ==
    \E i, k \in Slots :
       /\ i # k
       /\ jobs[i].state = FG /\ jobs[i].cmdline = BgLine
       /\ jobs[k].pid # 0

\* C4: the evaluator is never asleep in sigsuspend, with no signal pending
\* and no handler running, while the pid it waits for is already gone from
\* the table or no longer the foreground job.
C4_NoMissedWakeup ==
    ~(/\ pc = "suspended" /\ hpc = "none" /\ pending = {}
      /\ ~WaitCond(jobs, epid))

\* a foreground job of pid p has terminated while eval waits for it
FgTerminated(p) ==
    /\ pc \in {"waitfg", "suspend", "suspended"} /\ epid = p
    /\ proc[p] \in {"zombie_exit", "zombie_sig"}
    /\ \E i \in Slots : jobs[i].pid = p /\ jobs[i].state = FG

\* C5: once a foreground job has terminated, the job is eventually out of
\* the table and the main thread is back at the read loop.
C5_FgTerminationReturns ==
    \A p \in Pids :
       FgTerminated(p) ~> (pc = "read" /\ getjobpid(jobs, p) = 0)

\* C6: when sigtstp_handler runs while the evaluator sleeps in sigsuspend on
\* the foreground job, that job becomes Stopped, keeps its slot, pid and job
\* id, and the evaluator is woken.
C6_StopMarksJobStopped ==
    [][(/\ pc = "suspended" /\ epid # 0 /\ fgpid(jobs) = epid
        /\ SigtstpHandler)
       => (/\ jobs' = stopjob(jobs, epid)
           /\ pc' = "waitfg")]_vars

\* C7: "fg %j" or "bg %j" with no job of id j reports a message, leaves the
\* table as it is and the shell alive, on its way back to the read loop.
C7_UnknownJobRecoverable ==
    [][(\E isfg \in BOOLEAN, j \in 1..MaxJid :
            getjobjid(jobs, j) = 0 /\ BuiltinBgFg(isfg, j))
       => (/\ pc' \in {"waitfg", "read"}
           /\ jobs' = jobs
           /\ out' # NoLine)]_vars

\* C8: a child whose program could not be loaded never runs the parent's
\* part of eval nor main's read loop.
C8_FailedChildEnds == \A p \in Pids : proc[p] # "c_read"

\* C9: addjob on a full table reports "too many jobs", leaves every slot
\* and the counter as they are, and eval goes on to a waitfg that does not
\* wait.
C9_FullTableUnchanged ==
    [][((\A i \in Slots : jobs[i].pid # 0) /\ EvalAddjob)
       => (/\ jobs' = jobs
           /\ nextjid' = nextjid
           /\ \E k \in 1..Len(out') : out'[k].kind = "toomany"
           /\ pc' = "waitfg"
           /\ ~WaitCond(jobs', epid'))]_vars

\* a program was run on a full table: it is in no slot
C9_Witness ==
    /\ pc = "waitfg" /\ cmd = "prog"
    /\ \A i \in Slots : jobs[i].pid # 0
    /\ getjobpid(jobs, epid) = 0
    /\ \E k \in 1..Len(out) : out[k].kind = "toomany"

\* C10 as stated: no builtin (jobs, bg, fg) makes the evaluator suspend in
\* the foreground wait.
C10_BuiltinsNeverWait ==
    pc \in {"suspend", "suspended"} => cmd \notin {"jobs", "bg", "fg"}

\* C10 as amended: "jobs" and "bg" never make the evaluator suspend in the
\* foreground wait.
C10_JobsBgNeverWait ==
    pc \in {"suspend", "suspended"} => cmd \notin {"jobs", "bg"}

\* "bg" resumed a stopped foreground job and eval is about to call waitfg
C10_Witness ==
    /\ pc = "waitfg" /\ cmd = "bg"
    /\ \E i \in Slots :
         jobs[i].pid = epid /\ jobs[i].state = BG /\ jobs[i].cmdline = FgLine

Zombies == {"zombie_exit", "zombie_sig"}

\* C11: outside sigchld_handler, a job whose process is stopped and was
\* reported as stopped by waitpid has state Stopped in the table.
C11_StoppedMarkedStopped ==
    \A p \in Pids :
       (Alive /\ hpc = "none" /\ proc[p] = "stopped" /\ getjobpid(jobs, p) # 0)
          => jobs[getjobpid(jobs, p)].state = ST

\* C12: between fork and addjob sigchld_handler does not run and the new
\* child is not reaped, so addjob never adds a pid that was already reaped.
C12_AddBeforeReap ==
    pc = "forked" => (hpc = "none" /\ proc[epid] # "none")

\* the child has already terminated and its SIGCHLD waits, blocked, while
\* eval has not yet called addjob
C12_Witness ==
    /\ pc = "forked" /\ proc[epid] \in Zombies
    /\ "SIGCHLD" \in pending

\* C13: when sigchld_handler returns, no job of the table belongs to a
\* process that has terminated or has been reaped: one run of the handler
\* removes the job of every child that had terminated.
C13_HandlerReapsAll ==
    [][(hpc # "none" /\ hpc' = "none" /\ pc' \notin {"exited", "fatal", "crashed"})
       => \A i \in Slots :
             jobs'[i].pid # 0 => proc'[jobs'[i].pid] \notin Zombies \cup {"none"}]_vars

\* the handler has reaped one child and another job of the table has
\* terminated too, both under one delivery of SIGCHLD
C13_Witness ==
    /\ hpc = "del" /\ getjobpid(jobs, hpid) # 0
    /\ "SIGCHLD" \notin pending
    /\ \E p \in Pids : proc[p] \in Zombies /\ getjobpid(jobs, p) # 0

\* C14: sigint_handler run when the foreground job's process has been
\* reaped and its job not yet deleted does not end the shell.
C14_SigintEsrchNotFatal ==
    [][(/\ fgpid(jobs) # 0 /\ proc[fgpid(jobs)] = "none"
        /\ SigintHandler)
       => pc' # "fatal"]_vars

\* the changes of state the lifecycle allows: interactive stop, fg, bg
AllowedChange == {<<FG, ST>>, <<ST, FG>>, <<ST, BG>>, <<BG, FG>>}

\* C16: while a job stays in its slot, its job id does not change and its
\* state changes only from Foreground to Stopped, from Stopped to Foreground
\* or Background, or from Background to Foreground.
C16_StateTransitions ==
    [][\A i \in Slots :
          (jobs[i].pid # 0 /\ jobs'[i].pid = jobs[i].pid)
             => /\ jobs'[i].jid = jobs[i].jid
                /\ \/ jobs'[i].state = jobs[i].state
                   \/ <<jobs[i].state, jobs'[i].state>> \in AllowedChange]_vars

\* a background job was brought to the foreground while a stopped
\* foreground job was sent to the background
C16_Witness ==
    \E i, k \in Slots :
       /\ jobs[i].state = FG /\ jobs[i].cmdline = BgLine
       /\ jobs[k].state = BG /\ jobs[k].cmdline = FgLine

\* C17: deletejob(pid) with no in-use slot of that pid (or pid <= 0) returns
\* false and changes nothing; otherwise it clears exactly the slot of pid,
\* leaves the other slots as they are and sets nextjid to the largest
\* in-use job id plus one, 1 for an empty table.
C17_DeletejobContract ==
    [][\A pid \in 0..MaxPid :
          TableDelete(pid) =>
             IF pid <= 0 \/ \A i \in Slots : jobs[i].pid # pid
             THEN /\ deletejob(jobs, nextjid, pid).ret = 0
                  /\ jobs' = jobs /\ nextjid' = nextjid
             ELSE /\ deletejob(jobs, nextjid, pid).ret = 1
                  /\ \A i \in Slots :
                        IF jobs[i].pid = pid
                        THEN jobs'[i] = [pid |-> 0, jid |-> 0, state |-> UNDEF,
                                         cmdline |-> ""]
                        ELSE jobs'[i] = jobs[i]
                  /\ \A i \in Slots : jobs'[i].pid # 0 => jobs'[i].jid < nextjid'
                  /\ \/ nextjid' = 1
                     \/ \E i \in Slots :
                           jobs'[i].pid # 0 /\ jobs'[i].jid = nextjid' - 1]_vars

\* a deletion left a gap: fewer jobs than the largest job id, the counter
\* one above it
C17_Witness ==
    /\ InUse # {}
    /\ nextjid = maxjid(jobs) + 1
    /\ Cardinality(InUse) < maxjid(jobs)

\* C19: when the main thread is at the read loop, no job of the table has
\* state Foreground.
C19_NoFgAtRead == pc = "read" => FgSlots = {}

\* eval has returned from waiting for a foreground job that was stopped and
\* is still in the table
C19_Witness ==
    /\ pc = "read"
    /\ \E i \in Slots :
         jobs[i].pid # 0 /\ jobs[i].state = ST /\ jobs[i].cmdline = FgLine

\* C20: every job id of an in-use slot is in 1..MAXJOBS.
C20_JidInRange == \A i \in InUse : jobs[i].jid \in 1..MAXJOBS

\* C18: the announcement of a background job names the job id of the slot
\* that holds its pid and is written by the step that adds the job, which
\* starts with SIGCHLD still blocked; and no "terminated" or "stopped"
\* notice for a pid is written while eval is between the fork of that pid
\* and its addjob.
C18_AnnounceBeforeNotices ==
    [][/\ (EvalAddjob /\ bg_flag = 1 /\ getjobpid(jobs', epid) # 0)
           => /\ "SIGCHLD" \in mask
              /\ \E k \in 1..Len(out') :
                    /\ out'[k].kind = "announce" /\ out'[k].pid = epid
                    /\ \E i \in Slots :
                          jobs'[i].pid = epid /\ jobs'[i].jid = out'[k].jid
       /\ \A k \in 1..Len(out') :
             out'[k].kind \in {"terminated", "stopped"}
                => ~(pc = "forked" /\ epid = out'[k].pid)]_vars

\* a background job has just been announced whose process was already
\* killed by a signal: the notice and the removal are still to come
C18_Witness ==
    /\ pc = "waitfg" /\ cmd = "prog"
    /\ getjobpid(jobs, epid) # 0
    /\ proc[epid] = "zombie_sig" /\ "SIGCHLD" \in pending
    /\ \E k \in 1..Len(out) : out[k].kind = "announce" /\ out[k].pid = epid

\* C15: every step that changes the job table or nextjid is taken with
\* every signal blocked, and while the main thread is between blocking the
\* signals for a table update and restoring the mask no handler is running
\* and none can start.
C15_WritesUnderFullMask ==
    [][/\ (/\ pc' \notin {"exited", "fatal", "crashed"}
           /\ jobs' # jobs \/ nextjid' # nextjid)
          => Blocked = Sigs
       /\ pc \in {"blocked", "added", "bgfg", "bgfg_done"}
          => (hpc = "none" /\ Blocked = Sigs)]_vars

\* eval has added the job and not yet restored the mask, while the child
\* has terminated and its SIGCHLD is held back
C15_Witness ==
    /\ pc = "added" /\ mask = Sigs
    /\ getjobpid(jobs, epid) # 0
    /\ proc[epid] \in Zombies /\ "SIGCHLD" \in pending

====
